---- MODULE Spec2Model ----
(***************************************************************************)
(* Model of the recycle-ai Conversation Client (src/frontend/src/App.tsx)  *)
(* and of the Proxy Service it posts to (src/backend/server.js).           *)
(*                                                                         *)
(* A JavaScript string is a sequence of chunks (TLA+ strings): text typed  *)
(* by the user is one chunk per character, a literal of a template is one  *)
(* chunk.  Concatenation is \o, so trim, join and the template literals    *)
(* are computed as the code computes them.                                 *)
(*                                                                         *)
(* A nullable value is a sequence of length 0 (null / undefined) or 1.     *)
(*                                                                         *)
(* Every action is one run of a handler (or of one continuation of an      *)
(* async handler) on the event loop: React renders between two events, so   *)
(* a handler reads the state the previous handlers left.  An async handler *)
(* keeps the values it closed over at its call across its awaits.          *)
(***************************************************************************)
EXTENDS Integers, Sequences, FiniteSets, TLC

VARIABLES
    theme,              \* useState<'light' | 'dark'>
    items,              \* useState<RecyclingItem[]>
    additionalNotes,    \* useState('')
    isLoading,          \* useState(false)
    history,            \* useState<RecyclingInstruction[]>
    error,              \* useState<string | null>
    messages,           \* useState<Message[]>
    currentInput,       \* useState('')
    showItemsInput,     \* useState(true): TRUE = CollectingItems, FALSE = Chatting
    hasInitialResponse, \* useState(false)
    localStorage,       \* browser storage: a function from the keys present
    mounted,            \* whether the mount effects have run
    pending,            \* the handleSubmit calls suspended at an await
    now,                \* the clock Date.now() reads
    server,             \* the proxy: its API_KEY and the requests its route handles
    last                \* observation: the handler that ran last and its outcome

vars == <<theme, items, additionalNotes, isLoading, history, error, messages,
          currentInput, showItemsInput, hasInitialResponse, localStorage,
          mounted, pending, now, server, last>>

uiState == <<theme, items, additionalNotes, isLoading, history, error, messages,
             currentInput, showItemsInput, hasInitialResponse>>

---------------------------------------------------------------------------
\* Bounds of the model

\* longest Items list explored with the whole client (Spec)
MaxItems == 2
\* longest Items list explored with the item handlers alone (SpecItems) and
\* with one conversation against every network outcome (SpecFetch)
MaxSlots == 3
\* longest transcript explored
MaxMessages == 4
\* longest History explored
MaxHistory == 2
\* longest History an earlier session left in the storage (SpecStorage)
MaxStored == 2
\* clock ticks explored
MaxTicks == 1

---------------------------------------------------------------------------
\* Program constants

MAX_RETRIES == 3
RETRY_DELAY == 1000

FailedMessage == <<"Failed to get a response. Please try again.">>
NoInstructions == <<"No instructions found.">>

\* id of the slot of the initial state and of handleNewChat: '1'
InitialItemId == <<"1">>

\* null / undefined, and a present value
None == <<>>
Some(v) == <<v>>

---------------------------------------------------------------------------
\* Strings

WhiteSpace == {" ", "\t", "\n"}

RECURSIVE trimStart(_)
trimStart(s) ==
    IF s # <<>> /\ Head(s) \in WhiteSpace THEN trimStart(Tail(s)) ELSE s

RECURSIVE trimEnd(_)
trimEnd(s) ==
    IF s # <<>> /\ s[Len(s)] \in WhiteSpace
    THEN trimEnd(SubSeq(s, 1, Len(s) - 1))
    ELSE s

\* String.prototype.trim
trim(s) == trimEnd(trimStart(s))

\* Array.prototype.join on an array of strings
RECURSIVE join(_, _)
join(strs, sep) ==
    IF strs = <<>> THEN <<>>
    ELSE IF Len(strs) = 1 THEN strs[1]
    ELSE strs[1] \o sep \o join(Tail(strs), sep)

\* Date.now().toString() and new Date().toISOString() at clock value t
DateNowString(t) == <<ToString(t)>>
toISOString(t) == <<"T" \o ToString(t)>>

---------------------------------------------------------------------------
\* Items

\* the first value Date.now() can return: never the '1' of the initial slot
ClockStart == 2

EmptySlot == [id |-> InitialItemId, name |-> <<>>]

\* mutant: the reset leaves no slot
resetItems_empty == <<>>

\* [{ id: '1', name: '' }], the Items of handleNewChat
resetItems == <<EmptySlot>>

names(its) == [i \in 1..Len(its) |-> its[i].name]

\* items.filter(item => item.name.trim() !== '')
validItems(its) == SelectSeq(its, LAMBDA it : trim(it.name) # <<>>)

\* mutant: no blank slot is appended
handleItemChange_noAppend(prevItems, id, value, t) ==
    [i \in 1..Len(prevItems) |->
        IF prevItems[i].id = id THEN [prevItems[i] EXCEPT !.name = value]
        ELSE prevItems[i]]

\* the updater of handleItemChange, applied to prevItems at clock value t
handleItemChange(prevItems, id, value, t) ==
    LET updatedItems ==
            [i \in 1..Len(prevItems) |->
                IF prevItems[i].id = id
                THEN [prevItems[i] EXCEPT !.name = value]
                ELSE prevItems[i]]
    IN  IF id = prevItems[Len(prevItems)].id /\ trim(value) # <<>>
        THEN Append(updatedItems, [id |-> DateNowString(t), name |-> <<>>])
        ELSE updatedItems

\* removeItem: the guard reads items of the render, the updater prevItems
removeItem(its, id) ==
    IF Len(its) > 1
    THEN SelectSeq(its, LAMBDA it : it.id # id)
    ELSE its

---------------------------------------------------------------------------
\* Prompts and messages

userMessageOf(content, t) ==
    [type |-> "user", content |-> content, timestamp |-> toISOString(t)]

assistantMessageOf(content, t) ==
    [type |-> "assistant", content |-> content, timestamp |-> toISOString(t)]

\* the template of the initial prompt
initialPrompt(its, notes) ==
    <<"I have the following items: ">>
        \o join(names(validItems(its)), <<", ">>)
        \o <<". Instead of just recycling them, I want to explore creative ways to upcycle or repurpose them into something useful or beautiful. Please provide innovative ideas for transforming these items into new products, home decor, or practical everyday objects. Also, include any necessary recycling steps before repurposing. Additional considerations: ">>
        \o notes
        \o <<". Don't provide different answers for each item, provide the answer of using all together">>

\* `Items: ${...join(', ')}`
itemsLine(its) == <<"Items: ">> \o join(names(its), <<", ">>)

contextLine(msg) ==
    (IF msg.type = "user" THEN <<"Human">> ELSE <<"Assistant">>)
        \o <<": ">> \o msg.content

\* mutant: only the last message is sent as context
buildPromptWithContext_lastTurn(msgs, newPrompt) ==
    LET contextPrompt ==
            IF msgs = <<>> THEN <<>> ELSE contextLine(msgs[Len(msgs)])
    IN  contextPrompt \o <<"\n\nHuman: ">> \o newPrompt

buildPromptWithContext(msgs, newPrompt) ==
    LET contextPrompt ==
            join([i \in 1..Len(msgs) |-> contextLine(msgs[i])], <<"\n">>)
    IN  contextPrompt \o <<"\n\nHuman: ">> \o newPrompt

---------------------------------------------------------------------------
\* JSON.stringify / JSON.parse of the history: the stored text is a sequence
\* of tokens (punctuation, object keys, string literals)

P(c) == [p |-> c]
K(k) == [key |-> k]
S(s) == [str |-> s]

stringifyItem(it) ==
    <<P("{"), K("id"), S(it.id), K("name"), S(it.name), P("}")>>

RECURSIVE stringifyItems(_)
stringifyItems(its) ==
    IF its = <<>> THEN <<>>
    ELSE stringifyItem(Head(its)) \o stringifyItems(Tail(its))

stringifyEntry(e) ==
    <<P("{"), K("id"), S(e.id), K("items"), P("[")>>
        \o stringifyItems(e.items)
        \o <<P("]"), K("additionalNotes"), S(e.additionalNotes),
             K("instructions"), S(e.instructions),
             K("timestamp"), S(e.timestamp), P("}")>>

\* mutant: the entries are written oldest first
RECURSIVE stringifyEntries_reversed(_)
stringifyEntries_reversed(h) ==
    IF h = <<>> THEN <<>>
    ELSE stringifyEntries_reversed(Tail(h)) \o stringifyEntry(Head(h))

RECURSIVE stringifyEntries(_)
stringifyEntries(h) ==
    IF h = <<>> THEN <<>>
    ELSE stringifyEntry(Head(h)) \o stringifyEntries(Tail(h))

\* mutant: only the newest entry is written
stringify_newestOnly(h) ==
    <<P("[")>> \o (IF h = <<>> THEN <<>> ELSE stringifyEntry(Head(h))) \o <<P("]")>>

\* JSON.stringify(history)
stringify(h) == <<P("[")>> \o stringifyEntries(h) \o <<P("]")>>

RECURSIVE parseValue(_, _)
RECURSIVE parseArray(_, _, _)
RECURSIVE parseObject(_, _, _)

\* the value starting at token i, and the index after it
parseValue(toks, i) ==
    IF "str" \in DOMAIN toks[i] THEN [v |-> toks[i].str, next |-> i + 1]
    ELSE IF toks[i] = P("[") THEN parseArray(toks, i + 1, <<>>)
    ELSE parseObject(toks, i + 1, <<>>)

parseArray(toks, i, acc) ==
    IF toks[i] = P("]") THEN [v |-> acc, next |-> i + 1]
    ELSE LET r == parseValue(toks, i)
         IN  parseArray(toks, r.next, Append(acc, r.v))

parseObject(toks, i, acc) ==
    IF toks[i] = P("}") THEN [v |-> acc, next |-> i + 1]
    ELSE LET r == parseValue(toks, i + 1)
         IN  parseObject(toks, r.next, acc @@ (toks[i].key :> r.v))

parse(toks) == parseValue(toks, 1).v

\* localStorage.getItem / setItem
getItem(store, k) == IF k \in DOMAIN store THEN Some(store[k]) ELSE None
setItem(store, k, v) == [x \in DOMAIN store \cup {k} |-> IF x = k THEN v ELSE store[x]]

\* mutant: the effect writes nothing
saveHistoryEffect_never(store, h) == store

\* the effect "Save history to localStorage", run after a render with history h
saveHistoryEffect(store, h) ==
    IF Len(h) > 0 THEN setItem(store, "recyclingHistory", stringify(h)) ELSE store

---------------------------------------------------------------------------
\* HTTP: what one axios.post to the proxy settles with

BodyWithText(t) == [candidates |-> <<[content |-> [parts |-> <<[text |-> t]>>]]>>]

\* the 2xx bodies explored: two candidate texts, an empty text, no
\* candidates, a candidate without parts
Bodies ==
    { BodyWithText(<<"r">>),
      BodyWithText(<<"r", "2">>),
      BodyWithText(<<>>),
      [promptFeedback |-> <<"blocked">>],
      [candidates |-> <<[content |-> [parts |-> <<>>]]>>] }

Resolved(body) == [kind |-> "response", status |-> 200, data |-> body]
Rejected(status) == [kind |-> "response", status |-> status]
NetworkError == [kind |-> "network"]

\* the statuses axios rejects with that are explored
ErrorStatuses == {429, 500, 503}

Outcomes ==
    {Resolved(b) : b \in Bodies} \cup {Rejected(st) : st \in ErrorStatuses}
        \cup {NetworkError}

\* the outcomes explored with the whole client: one of each kind
CommonOutcomes ==
    {Resolved(BodyWithText(<<"r">>)), Rejected(429), Rejected(500), NetworkError}

\* response.data.candidates?.[0]?.content?.parts?.[0]?.text
candidateText(data) ==
    LET candidate ==
            IF "candidates" \in DOMAIN data /\ Len(data.candidates) >= 1
            THEN Some(data.candidates[1]) ELSE None
        content ==
            IF candidate # None /\ "content" \in DOMAIN candidate[1]
            THEN Some(candidate[1].content) ELSE None
        part ==
            IF content # None /\ "parts" \in DOMAIN content[1]
                /\ Len(content[1].parts) >= 1
            THEN Some(content[1].parts[1]) ELSE None
    IN  IF part # None /\ "text" \in DOMAIN part[1]
        THEN Some(part[1].text) ELSE None

\* mutant: the text of the body is dropped
returnedText_fallbackOnly(data) == NoInstructions

\* mutant: no fallback, a body without text gives the empty string
returnedText_noFallback(data) ==
    IF candidateText(data) # None THEN candidateText(data)[1] ELSE <<>>

\* ... || "No instructions found."
returnedText(data) ==
    IF candidateText(data) # None /\ candidateText(data)[1] # <<>>
    THEN candidateText(data)[1]
    ELSE NoInstructions

\* mutants: one retry too many; a retry on every error status
shouldRetry_offByOne(outcome, retryCount) ==
    /\ outcome.kind = "response"
    /\ outcome.status = 429
    /\ retryCount <= MAX_RETRIES

shouldRetry_anyStatus(outcome, retryCount) ==
    /\ outcome.kind = "response"
    /\ retryCount < MAX_RETRIES

\* the condition of the catch block of fetchWithRetry
shouldRetry(outcome, retryCount) ==
    /\ outcome.kind = "response"
    /\ outcome.status = 429
    /\ retryCount < MAX_RETRIES

\* RETRY_DELAY * Math.pow(2, retryCount)
retryDelay(retryCount) == RETRY_DELAY * 2 ^ retryCount

---------------------------------------------------------------------------
\* The state after construction

\* observation of a handler whose outcome no property reads
Other == [op |-> "other"]

\* a history entry a previous session stored
StoredEntry ==
    [id |-> <<"0">>,
     items |-> <<[id |-> InitialItemId, name |-> <<"a">>],
                 [id |-> <<"0">>, name |-> <<"b">>]>>,
     additionalNotes |-> <<>>,
     instructions |-> <<"r">>,
     timestamp |-> <<"T0">>]

\* the storage is empty (first visit) or holds what a previous session wrote
InitialStorages ==
    { <<>>,
      [k \in {"theme", "recyclingHistory"} |->
          IF k = "theme" THEN "light" ELSE stringify(<<StoredEntry>>)] }

Init ==
    /\ theme = "dark"
    /\ items = <<EmptySlot>>
    /\ additionalNotes = <<>>
    /\ isLoading = FALSE
    /\ history = <<>>
    /\ error = None
    /\ messages = <<>>
    /\ currentInput = <<>>
    /\ showItemsInput = TRUE
    /\ hasInitialResponse = FALSE
    /\ localStorage \in InitialStorages
    /\ mounted = FALSE
    /\ pending = <<>>
    /\ now = ClockStart
    /\ server = [API_KEY |-> <<"key">>, handlers |-> <<>>]
    /\ last = Other

\* entries an earlier session can have stored: two items, a name and notes
\* with white space, the fallback text as instructions
StoredEntries ==
    { StoredEntry,
      [id |-> <<"1">>,
       items |-> <<[id |-> InitialItemId, name |-> <<" ", "b">>]>>,
       additionalNotes |-> <<"n", " ">>,
       instructions |-> NoInstructions,
       timestamp |-> <<"T1">>],
      [id |-> <<"1">>,
       items |-> <<[id |-> <<"0">>, name |-> <<"a">>]>>,
       additionalNotes |-> <<>>,
       instructions |-> <<"r", "2">>,
       timestamp |-> <<"T1">>] }

\* the histories of at most n of these entries, the empty one included
RECURSIVE StoredHistories(_)
StoredHistories(n) ==
    IF n = 0 THEN {<<>>}
    ELSE StoredHistories(n - 1)
            \cup {<<e>> \o h : e \in StoredEntries, h \in StoredHistories(n - 1)}

\* what the earlier sessions left: nothing, or a theme and a history (the
\* save effect never writes an empty history)
RichStorages ==
    { <<>> } \cup
    { [k \in {"theme", "recyclingHistory"} |->
          IF k = "theme" THEN "light" ELSE stringify(h)] :
      h \in StoredHistories(MaxStored) \ {<<>>} }

InitStorage ==
    /\ theme = "dark"
    /\ items = <<EmptySlot>>
    /\ additionalNotes = <<>>
    /\ isLoading = FALSE
    /\ history = <<>>
    /\ error = None
    /\ messages = <<>>
    /\ currentInput = <<>>
    /\ showItemsInput = TRUE
    /\ hasInitialResponse = FALSE
    /\ localStorage \in RichStorages
    /\ mounted = FALSE
    /\ pending = <<>>
    /\ now = ClockStart
    /\ server = [API_KEY |-> <<"key">>, handlers |-> <<>>]
    /\ last = Other

\* the values of VITE_GOOGLE_API_KEY explored: two keys, and the text the
\* template literal of API_URL gives when the variable is not set
Keys == { <<"key">>, <<"key2">>, <<"undefined">> }

\* the client at its construction, the proxy started with any of the keys
InitKeys ==
    /\ theme = "dark"
    /\ items = <<EmptySlot>>
    /\ additionalNotes = <<>>
    /\ isLoading = FALSE
    /\ history = <<>>
    /\ error = None
    /\ messages = <<>>
    /\ currentInput = <<>>
    /\ showItemsInput = TRUE
    /\ hasInitialResponse = FALSE
    /\ localStorage \in InitialStorages
    /\ mounted = FALSE
    /\ pending = <<>>
    /\ now = ClockStart
    /\ server \in {[API_KEY |-> key, handlers |-> <<>>] : key \in Keys}
    /\ last = Other

---------------------------------------------------------------------------
\* The values the user types

ItemNames == { <<>>, <<" ">>, <<"a">> }
SlotNames == ItemNames \cup { <<" ", "b">> }
NoteTexts == { <<>>, <<"n">> }
InputTexts == { <<>>, <<" ">>, <<"q">> }

---------------------------------------------------------------------------
\* Actions

\* the clock advances
Tick ==
    /\ now < ClockStart + MaxTicks
    /\ now' = now + 1
    /\ last' = Other
    /\ UNCHANGED <<uiState, localStorage, mounted, pending, server>>

\* the three mount effects, in order: theme, load history, save history
\* (of the first render, where history is empty), then the save effect of
\* the render that follows setHistory
Mount ==
    /\ ~mounted
    /\ mounted' = TRUE
    /\ LET savedTheme == getItem(localStorage, "theme")
           savedHistory == getItem(localStorage, "recyclingHistory")
           loaded == IF savedHistory # None THEN parse(savedHistory[1]) ELSE history
       IN  /\ theme' = IF savedTheme # None THEN savedTheme[1] ELSE "dark"
           /\ history' = loaded
           /\ localStorage' =
                IF savedHistory # None
                THEN saveHistoryEffect(saveHistoryEffect(localStorage, history), loaded)
                ELSE saveHistoryEffect(localStorage, history)
    /\ last' = Other
    /\ UNCHANGED <<items, additionalNotes, isLoading, error, messages,
                   currentInput, showItemsInput, hasInitialResponse, pending, now,
                   server>>

toggleTheme ==
    /\ mounted
    /\ LET newTheme == IF theme = "dark" THEN "light" ELSE "dark"
       IN  /\ theme' = newTheme
           /\ localStorage' = setItem(localStorage, "theme", newTheme)
    /\ last' = Other
    /\ UNCHANGED <<items, additionalNotes, isLoading, history, error, messages,
                   currentInput, showItemsInput, hasInitialResponse, mounted,
                   pending, now, server>>

\* onChange of the input of slot i: rendered in CollectingItems mode,
\* disabled while loading
ItemChangeWithin(i, value, maxLen) ==
    /\ mounted /\ showItemsInput /\ ~isLoading
    /\ Len(handleItemChange(items, items[i].id, value, now)) <= maxLen
    /\ items' = handleItemChange(items, items[i].id, value, now)
    /\ last' = Other
    /\ UNCHANGED <<theme, additionalNotes, isLoading, history, error, messages,
                   currentInput, showItemsInput, hasInitialResponse,
                   localStorage, mounted, pending, now, server>>

ItemChange(i, value) == ItemChangeWithin(i, value, MaxItems)

\* the remove button is rendered for index > 0 only
removeButtonShown(i) == i > 1

\* onClick of the remove button of slot i: not disabled while loading
RemoveItem(i) ==
    /\ mounted /\ showItemsInput
    /\ removeButtonShown(i)
    /\ items' = removeItem(items, items[i].id)
    /\ last' = Other
    /\ UNCHANGED <<theme, additionalNotes, isLoading, history, error, messages,
                   currentInput, showItemsInput, hasInitialResponse,
                   localStorage, mounted, pending, now, server>>

\* onChange of the notes textarea
NotesChange(value) ==
    /\ mounted /\ showItemsInput /\ ~isLoading
    /\ additionalNotes' = value
    /\ last' = Other
    /\ UNCHANGED <<theme, items, isLoading, history, error, messages,
                   currentInput, showItemsInput, hasInitialResponse,
                   localStorage, mounted, pending, now, server>>

\* onChange of the follow-up input
InputChange(value) ==
    /\ mounted /\ ~showItemsInput /\ ~isLoading
    /\ currentInput' = value
    /\ last' = Other
    /\ UNCHANGED <<theme, items, additionalNotes, isLoading, history, error,
                   messages, showItemsInput, hasInitialResponse,
                   localStorage, mounted, pending, now, server>>

---------------------------------------------------------------------------
\* handleSubmit up to its await

\* mutants: the slots are counted, not the named ones; the input is not trimmed
submitReturnsEarly_anySlot(showItems, its, input) ==
    IF showItems THEN Len(its) = 0 ELSE trim(input) = <<>>

submitReturnsEarly_untrimmed(showItems, its, input) ==
    IF showItems THEN Len(validItems(its)) = 0 ELSE input = <<>>

\* the two early returns of handleSubmit
submitReturnsEarly(showItems, its, input) ==
    IF showItems THEN Len(validItems(its)) = 0 ELSE trim(input) = <<>>

\* prompt, as computed before finalPrompt
promptOf(showItems, its, notes, input) ==
    IF showItems THEN initialPrompt(its, notes) ELSE input

finalPromptOf(showItems, its, notes, input, msgs) ==
    IF ~showItems
    THEN buildPromptWithContext(msgs, promptOf(showItems, its, notes, input))
    ELSE promptOf(showItems, its, notes, input)

userMessageContent(showItems, its, notes, input) ==
    IF showItems THEN itemsLine(validItems(its))
    ELSE promptOf(showItems, its, notes, input)

\* a handleSubmit call suspended in fetchWithRetry: what it closed over, the
\* frame of fetchWithRetry it waits in, and a log of that fetch
newCall(showItems, its, notes, msgs, finalPrompt) ==
    [showItemsInput |-> showItems,
     items |-> its,
     additionalNotes |-> notes,
     messages |-> msgs,
     prompt |-> finalPrompt,
     retryCount |-> 0,
     phase |-> "posting",
     attempts |-> 1,
     waits |-> <<>>,
     responses |-> <<>>]

\* mutant: the submit controls are never disabled
submitEnabled_always == TRUE

\* the submit button and the follow-up form are disabled while loading
submitEnabled == ~isLoading

\* mutant: the error of the previous submission is left
handleSubmit_keepsError ==
    /\ mounted /\ submitEnabled
    /\ IF submitReturnsEarly(showItemsInput, items, currentInput)
       THEN /\ last' = [op |-> "handleSubmit", sent |-> FALSE]
            /\ UNCHANGED <<uiState, pending>>
       ELSE /\ Len(messages) + 2 <= MaxMessages
            /\ showItemsInput => Len(history) < MaxHistory
            /\ isLoading' = TRUE
            /\ messages' = Append(messages,
                    userMessageOf(userMessageContent(showItemsInput, items,
                                      additionalNotes, currentInput), now))
            /\ currentInput' = <<>>
            /\ pending' = Append(pending,
                    newCall(showItemsInput, items, additionalNotes, messages,
                            finalPromptOf(showItemsInput, items, additionalNotes,
                                          currentInput, messages)))
            /\ last' = [op |-> "handleSubmit", sent |-> TRUE]
            /\ UNCHANGED <<theme, items, additionalNotes, history, error,
                           showItemsInput, hasInitialResponse>>
    /\ UNCHANGED <<localStorage, mounted, now, server>>

handleSubmit ==
    /\ mounted /\ submitEnabled
    /\ IF submitReturnsEarly(showItemsInput, items, currentInput)
       THEN /\ last' = [op |-> "handleSubmit", sent |-> FALSE]
            /\ UNCHANGED <<uiState, pending>>
       ELSE /\ Len(messages) + 2 <= MaxMessages
            /\ showItemsInput => Len(history) < MaxHistory
            /\ isLoading' = TRUE
            /\ error' = None
            /\ messages' = Append(messages,
                    userMessageOf(userMessageContent(showItemsInput, items,
                                      additionalNotes, currentInput), now))
            /\ currentInput' = <<>>
            /\ pending' = Append(pending,
                    newCall(showItemsInput, items, additionalNotes, messages,
                            finalPromptOf(showItemsInput, items, additionalNotes,
                                          currentInput, messages)))
            /\ last' = [op |-> "handleSubmit", sent |-> TRUE]
            /\ UNCHANGED <<theme, items, additionalNotes, history,
                           showItemsInput, hasInitialResponse>>
    /\ UNCHANGED <<localStorage, mounted, now, server>>

---------------------------------------------------------------------------
\* fetchWithRetry and the rest of handleSubmit

without(seq, k) == [i \in 1..(Len(seq) - 1) |-> IF i < k THEN seq[i] ELSE seq[i + 1]]

\* mutant: the blank slots are stored too
newInstruction_allItems(call, response, t) ==
    [id |-> DateNowString(t),
     items |-> call.items,
     additionalNotes |-> call.additionalNotes,
     instructions |-> response,
     timestamp |-> toISOString(t)]

\* newInstruction, built from the values the call closed over
newInstruction(call, response, t) ==
    [id |-> DateNowString(t),
     items |-> validItems(call.items),
     additionalNotes |-> call.additionalNotes,
     instructions |-> response,
     timestamp |-> toISOString(t)]

logOf(call, outcome, settled, returned) ==
    [op |-> "response",
     outcome |-> outcome,
     settled |-> settled,
     initial |-> call.showItemsInput,
     attempts |-> call.attempts,
     waits |-> call.waits,
     responses |-> Append(call.responses, outcome),
     returned |-> returned]

\* mutant: the assistant turn is put first in the transcript
SubmitSucceeded_prepends(k, outcome) ==
    LET call == pending[k]
        response == returnedText(outcome.data)
    IN  /\ messages' = <<assistantMessageOf(response, now)>> \o messages
        /\ IF call.showItemsInput
           THEN /\ history' = <<newInstruction(call, response, now)>> \o history
                /\ showItemsInput' = FALSE
                /\ hasInitialResponse' = TRUE
                /\ localStorage' = saveHistoryEffect(localStorage, history')
           ELSE UNCHANGED <<history, showItemsInput, hasInitialResponse, localStorage>>
        /\ isLoading' = FALSE
        /\ pending' = without(pending, k)
        /\ last' = logOf(call, outcome, "returned", Some(response))
        /\ UNCHANGED <<theme, items, additionalNotes, error, currentInput,
                       mounted, now>>

\* the try block of handleSubmit after fetchWithRetry returned response
SubmitSucceeded(k, outcome) ==
    LET call == pending[k]
        response == returnedText(outcome.data)
    IN  /\ messages' = Append(messages, assistantMessageOf(response, now))
        /\ IF call.showItemsInput
           THEN /\ history' = <<newInstruction(call, response, now)>> \o history
                /\ showItemsInput' = FALSE
                /\ hasInitialResponse' = TRUE
                /\ localStorage' = saveHistoryEffect(localStorage, history')
           ELSE UNCHANGED <<history, showItemsInput, hasInitialResponse, localStorage>>
        /\ isLoading' = FALSE
        /\ pending' = without(pending, k)
        /\ last' = logOf(call, outcome, "returned", Some(response))
        /\ UNCHANGED <<theme, items, additionalNotes, error, currentInput,
                       mounted, now>>

\* the catch block of fetchWithRetry takes the retry branch: sleep
RetryWait(k, outcome) ==
    LET call == pending[k]
    IN  /\ pending' = [pending EXCEPT ![k] =
                [call EXCEPT !.phase = "sleeping",
                             !.waits = Append(@, retryDelay(call.retryCount)),
                             !.responses = Append(@, outcome)]]
        /\ last' = logOf(call, outcome, "retrying", None)
        /\ UNCHANGED <<uiState, localStorage, mounted, now>>

\* mutant: a failure brings the item form back
SubmitFailed_backToItems(k, outcome) ==
    LET call == pending[k]
    IN  /\ error' = Some(FailedMessage)
        /\ isLoading' = FALSE
        /\ showItemsInput' = TRUE
        /\ pending' = without(pending, k)
        /\ last' = logOf(call, outcome, "thrown", None)
        /\ UNCHANGED <<theme, items, additionalNotes, history, messages,
                       currentInput, hasInitialResponse,
                       localStorage, mounted, now>>

\* mutant: the message tells a network error from an error status
SubmitFailed_detailed(k, outcome) ==
    LET call == pending[k]
    IN  /\ error' = IF outcome.kind = "network"
                    THEN Some(<<"Network error.">>)
                    ELSE Some(FailedMessage)
        /\ isLoading' = FALSE
        /\ pending' = without(pending, k)
        /\ last' = logOf(call, outcome, "thrown", None)
        /\ UNCHANGED <<theme, items, additionalNotes, history, messages,
                       currentInput, showItemsInput, hasInitialResponse,
                       localStorage, mounted, now>>

\* mutant: a failure appends the error as an assistant turn
SubmitFailed_appendsError(k, outcome) ==
    LET call == pending[k]
    IN  /\ error' = Some(FailedMessage)
        /\ isLoading' = FALSE
        /\ messages' = Append(messages, assistantMessageOf(FailedMessage, now))
        /\ pending' = without(pending, k)
        /\ last' = logOf(call, outcome, "thrown", None)
        /\ UNCHANGED <<theme, items, additionalNotes, history,
                       currentInput, showItemsInput, hasInitialResponse,
                       localStorage, mounted, now>>

\* mutant: no finally block, loading is not cleared after a failure
SubmitFailed_staysLoading(k, outcome) ==
    LET call == pending[k]
    IN  /\ error' = Some(FailedMessage)
        /\ pending' = without(pending, k)
        /\ last' = logOf(call, outcome, "thrown", None)
        /\ UNCHANGED <<theme, items, additionalNotes, history, messages,
                       currentInput, showItemsInput, hasInitialResponse,
                       isLoading, localStorage, mounted, now>>

\* fetchWithRetry throws: the catch and finally blocks of handleSubmit
SubmitFailed(k, outcome) ==
    LET call == pending[k]
    IN  /\ error' = Some(FailedMessage)
        /\ isLoading' = FALSE
        /\ pending' = without(pending, k)
        /\ last' = logOf(call, outcome, "thrown", None)
        /\ UNCHANGED <<theme, items, additionalNotes, history, messages,
                       currentInput, showItemsInput, hasInitialResponse,
                       localStorage, mounted, now>>

\* the axios.post of call k settles with outcome
Respond(k, outcome) ==
    /\ pending[k].phase = "posting"
    /\ IF outcome.kind = "response" /\ outcome.status = 200
       THEN SubmitSucceeded(k, outcome)
       ELSE IF shouldRetry(outcome, pending[k].retryCount)
            THEN RetryWait(k, outcome)
            ELSE SubmitFailed(k, outcome)

\* the sleep of call k ends: fetchWithRetry(prompt, retryCount + 1)
Wake(k) ==
    /\ pending[k].phase = "sleeping"
    /\ pending' = [pending EXCEPT ![k] =
            [@ EXCEPT !.phase = "posting",
                      !.retryCount = @ + 1,
                      !.attempts = @ + 1]]
    /\ last' = Other
    /\ UNCHANGED <<uiState, localStorage, mounted, now, server>>

---------------------------------------------------------------------------
\* The sidebar

\* mutant: the entry is appended to the transcript
loadHistoryChat_appends(entry) ==
    /\ mounted
    /\ messages' = messages \o
        << [type |-> "user", content |-> itemsLine(entry.items),
            timestamp |-> entry.timestamp],
           [type |-> "assistant", content |-> entry.instructions,
            timestamp |-> entry.timestamp] >>
    /\ showItemsInput' = FALSE
    /\ hasInitialResponse' = TRUE
    /\ last' = [op |-> "loadHistoryChat", entry |-> entry]
    /\ UNCHANGED <<theme, items, additionalNotes, isLoading, history, error,
                   currentInput, localStorage, mounted, pending, now, server>>

\* onClick of a history entry of the sidebar: never disabled
loadHistoryChat(entry) ==
    /\ mounted
    /\ messages' =
        << [type |-> "user", content |-> itemsLine(entry.items),
            timestamp |-> entry.timestamp],
           [type |-> "assistant", content |-> entry.instructions,
            timestamp |-> entry.timestamp] >>
    /\ showItemsInput' = FALSE
    /\ hasInitialResponse' = TRUE
    /\ last' = [op |-> "loadHistoryChat", entry |-> entry]
    /\ UNCHANGED <<theme, items, additionalNotes, isLoading, history, error,
                   currentInput, localStorage, mounted, pending, now, server>>

\* mutant: the error is not cleared
handleNewChat_keepsError ==
    /\ mounted
    /\ messages' = <<>>
    /\ currentInput' = <<>>
    /\ items' = resetItems
    /\ additionalNotes' = <<>>
    /\ showItemsInput' = TRUE
    /\ hasInitialResponse' = FALSE
    /\ last' = [op |-> "handleNewChat"]
    /\ UNCHANGED <<theme, isLoading, history, error, localStorage, mounted,
                   pending, now, server>>

handleNewChat ==
    /\ mounted
    /\ messages' = <<>>
    /\ currentInput' = <<>>
    /\ error' = None
    /\ items' = resetItems
    /\ additionalNotes' = <<>>
    /\ showItemsInput' = TRUE
    /\ hasInitialResponse' = FALSE
    /\ last' = [op |-> "handleNewChat"]
    /\ UNCHANGED <<theme, isLoading, history, localStorage, mounted, pending, now,
                   server>>

\* the page is loaded again: App is constructed anew (the calls of the old
\* page are gone with it) and its mount effects run on the storage as it is
Reload ==
    /\ mounted
    /\ LET savedTheme == getItem(localStorage, "theme")
           savedHistory == getItem(localStorage, "recyclingHistory")
           loaded == IF savedHistory # None THEN parse(savedHistory[1]) ELSE <<>>
       IN  /\ theme' = IF savedTheme # None THEN savedTheme[1] ELSE "dark"
           /\ history' = loaded
           /\ localStorage' =
                saveHistoryEffect(saveHistoryEffect(localStorage, <<>>), loaded)
    /\ items' = <<EmptySlot>>
    /\ additionalNotes' = <<>>
    /\ isLoading' = FALSE
    /\ error' = None
    /\ messages' = <<>>
    /\ currentInput' = <<>>
    /\ showItemsInput' = TRUE
    /\ hasInitialResponse' = FALSE
    /\ pending' = <<>>
    /\ last' = [op |-> "reload"]
    /\ UNCHANGED <<mounted, now, server>>

---------------------------------------------------------------------------
\* The proxy (src/backend/server.js) and the way to it

\* `https://...:generateContent?key=${API_KEY}`
API_URL(key) ==
    <<"https://generativelanguage.googleapis.com/v1/models/gemini-pro:generateContent?key=">>
        \o key

\* the body fetchWithRetry posts: { contents: [{ parts: [{ text: prompt }] }] }
requestBody(prompt) == [contents |-> <<[parts |-> <<[text |-> prompt]>>]>>]

\* an error status with a response body
RejectedWith(status, body) == [kind |-> "response", status |-> status, data |-> body]

\* the error body of the upstream API
UpstreamErrorBody(status) == [error |-> [code |-> status, message |-> <<"upstream">>]]

\* the error statuses of the upstream API explored: bad credential or
\* request, rate limit, unavailable
UpstreamStatuses == {400, 429, 503}

\* what the axios.post of the proxy settles with: a 2xx body, an error status
\* with a body, an error status whose body is empty (error.response.data is
\* falsy, modelled as no data), or no response at all
UpstreamOutcomes ==
    {Resolved(b) : b \in Bodies}
        \cup {RejectedWith(st, UpstreamErrorBody(st)) : st \in UpstreamStatuses}
        \cup {Rejected(st) : st \in UpstreamStatuses}
        \cup {NetworkError}

\* mutant: only the candidates of the upstream body are relayed
proxyResponse_candidatesOnly(outcome) ==
    IF outcome.kind = "response" /\ outcome.status = 200
    THEN [status |-> 200,
          body |-> [candidates |->
                      IF "candidates" \in DOMAIN outcome.data
                      THEN outcome.data.candidates ELSE <<>>]]
    ELSE [status |-> 500, body |-> [error |-> S(<<"Internal Server Error">>)]]

\* mutant: the status of the upstream error is relayed
proxyResponse_relaysStatus(outcome) ==
    IF outcome.kind = "response" /\ outcome.status = 200
    THEN [status |-> 200, body |-> outcome.data]
    ELSE [status |-> IF outcome.kind = "response" THEN outcome.status ELSE 500,
          body |-> [error |-> IF "data" \in DOMAIN outcome
                              THEN outcome.data
                              ELSE S(<<"Internal Server Error">>)]]

\* mutant: a rate limit of the upstream is answered as a 429
proxyResponse_relays429(outcome) ==
    IF outcome.kind = "response" /\ outcome.status = 200
    THEN [status |-> 200, body |-> outcome.data]
    ELSE [status |-> IF outcome.kind = "response" /\ outcome.status = 429
                     THEN 429 ELSE 500,
          body |-> [error |-> IF "data" \in DOMAIN outcome
                              THEN outcome.data
                              ELSE S(<<"Internal Server Error">>)]]

\* what the route answers: res.json(response.data) in the try block,
\* res.status(500).json({ error: error.response?.data || "Internal Server
\* Error" }) in the catch block
proxyResponse(outcome) ==
    IF outcome.kind = "response" /\ outcome.status = 200
    THEN [status |-> 200, body |-> outcome.data]
    ELSE [status |-> 500,
          body |-> [error |-> IF "data" \in DOMAIN outcome
                              THEN outcome.data
                              ELSE S(<<"Internal Server Error">>)]]

\* what axios.post of the client settles with for a response of the proxy
clientOutcome(res) == [kind |-> "response", status |-> res.status, data |-> res.body]

\* the request of call k is not being handled by the route
notHandled(k) == \A j \in 1..Len(server.handlers) : server.handlers[j].call # k

\* app.post("/api/gemini"): the route takes the request of call k, builds
\* requestData and posts it upstream
apiGemini(k) ==
    /\ pending[k].phase = "posting"
    /\ notHandled(k)
    /\ server' = [server EXCEPT !.handlers = Append(@,
            [call |-> k,
             url |-> API_URL(server.API_KEY),
             requestData |-> [contents |-> requestBody(pending[k].prompt).contents],
             upstream |-> None,
             res |-> None])]
    /\ last' = Other
    /\ UNCHANGED <<uiState, localStorage, mounted, pending, now>>

\* mutant: a failure is answered with the URL of the failed upstream request
answerOf_leaksUrl(handler, outcome) ==
    IF outcome.kind = "response" /\ outcome.status = 200
    THEN proxyResponse(outcome)
    ELSE [status |-> 500, body |-> [error |-> S(handler.url)]]

\* the answer of a handler of the route, which has API_URL and requestData in
\* scope, to what its upstream post settled with
answerOf(handler, outcome) == proxyResponse(outcome)

\* the upstream post of handler j settles: the route answers
apiGeminiSettled(j, outcome) ==
    /\ server.handlers[j].res = None
    /\ server' = [server EXCEPT
            !.handlers[j].upstream = Some(outcome),
            !.handlers[j].res = Some(answerOf(server.handlers[j], outcome))]
    /\ last' = Other
    /\ UNCHANGED <<uiState, localStorage, mounted, pending, now>>

\* the answer of handler j reaches the axios.post of the client
Deliver(j) ==
    /\ server.handlers[j].res # None
    /\ Respond(server.handlers[j].call, clientOutcome(server.handlers[j].res[1]))
    /\ server' = [server EXCEPT !.handlers = without(@, j)]

\* what the endpoint can answer without the route running: no connection, or
\* a 429 of the host in front of the proxy
EndpointOutcomes == {NetworkError, Rejected(429)}

\* the request of call k does not reach the route
EndpointAnswers(k, outcome) ==
    /\ notHandled(k)
    /\ Respond(k, outcome)
    /\ UNCHANGED server

---------------------------------------------------------------------------

Next ==
    \/ Tick
    \/ Mount
    \/ toggleTheme
    \/ \E i \in 1..Len(items), value \in ItemNames : ItemChange(i, value)
    \/ \E i \in 1..Len(items) : RemoveItem(i)
    \/ \E value \in NoteTexts : NotesChange(value)
    \/ \E value \in InputTexts : InputChange(value)
    \/ handleSubmit
    \/ \E k \in 1..Len(pending), outcome \in CommonOutcomes :
            Respond(k, outcome) /\ UNCHANGED server
    \/ \E k \in 1..Len(pending) : Wake(k)
    \/ \E i \in 1..Len(history) : loadHistoryChat(history[i])
    \/ handleNewChat

\* the whole client
Spec == Init /\ [][Next]_vars

\* the item handlers alone, on longer lists and more names
NextItems ==
    \/ Tick
    \/ Mount
    \/ \E i \in 1..Len(items), value \in SlotNames : ItemChangeWithin(i, value, MaxSlots)
    \/ \E i \in 1..Len(items) : RemoveItem(i)
    \/ handleNewChat

SpecItems == Init /\ [][NextItems]_vars

\* conversations of one item name against every network outcome
NextFetch ==
    \/ Mount
    \/ \E i \in 1..Len(items) : ItemChangeWithin(i, <<"a">>, MaxSlots)
    \/ \E i \in 1..Len(items) : RemoveItem(i)
    \/ InputChange(<<"q">>)
    \/ handleSubmit
    \/ \E k \in 1..Len(pending), outcome \in Outcomes :
            Respond(k, outcome) /\ UNCHANGED server
    \/ \E k \in 1..Len(pending) : Wake(k)

SpecFetch == Init /\ [][NextFetch]_vars

\* a post that is awaited settles
AnyResponse ==
    \E k \in 1..Len(pending), outcome \in Outcomes :
        Respond(k, outcome) /\ UNCHANGED server

\* a sleep that is awaited ends
AnyWake == \E k \in 1..Len(pending) : Wake(k)

\* the conversations of NextFetch with the reset and the sidebar
NextLive ==
    \/ NextFetch
    \/ \E i \in 1..Len(history) : loadHistoryChat(history[i])
    \/ handleNewChat

\* every HTTP call is answered in the end (the hypothesis of the liveness
\* property) and every setTimeout of sleep fires; the user is free to do
\* anything or nothing
SpecLive ==
    /\ Init
    /\ [][NextLive]_vars
    /\ WF_vars(AnyResponse)
    /\ WF_vars(AnyWake)

\* sessions on the storage earlier sessions left: submissions of one item
\* name, the sidebar, the reset, and reloads of the page
NextStorage ==
    \/ Mount
    \/ \E i \in 1..Len(items) : ItemChange(i, <<"a">>)
    \/ \E value \in NoteTexts : NotesChange(value)
    \/ handleSubmit
    \/ \E k \in 1..Len(pending), outcome \in CommonOutcomes :
            Respond(k, outcome) /\ UNCHANGED server
    \/ \E k \in 1..Len(pending) : Wake(k)
    \/ \E i \in 1..Len(history) : loadHistoryChat(history[i])
    \/ handleNewChat
    \/ Reload

SpecStorage == InitStorage /\ [][NextStorage]_vars

\* conversations of one item name end to end: the client, the route of the
\* proxy and every outcome of the upstream call
NextProxy ==
    \/ Mount
    \/ \E i \in 1..Len(items) : ItemChange(i, <<"a">>)
    \/ InputChange(<<"q">>)
    \/ handleSubmit
    \/ \E k \in 1..Len(pending) : apiGemini(k)
    \/ \E j \in 1..Len(server.handlers), outcome \in UpstreamOutcomes :
            apiGeminiSettled(j, outcome)
    \/ \E j \in 1..Len(server.handlers) : Deliver(j)
    \/ \E k \in 1..Len(pending), outcome \in EndpointOutcomes :
            EndpointAnswers(k, outcome)
    \/ \E k \in 1..Len(pending) : Wake(k)

SpecProxy == Init /\ [][NextProxy]_vars

\* the same, the proxy started with any of the keys
SpecKeys == InitKeys /\ [][NextProxy]_vars

---------------------------------------------------------------------------
\* Properties of fetchWithRetry (SpecFetch)

Is429(outcome) == outcome.kind = "response" /\ outcome.status = 429
Is200(outcome) == outcome.kind = "response" /\ outcome.status = 200
All429(outcomes) == \A i \in 1..Len(outcomes) : Is429(outcomes[i])

\* the waits the specification states, in order
SpecifiedWaits == <<1000, 2000, 4000>>

\* C1: while every call answers 429, the waits made so far are 1000, 2000,
\* 4000 ms in that order, one after each 429 but the fourth; no fifth attempt
\* is made; and the fetch that got 429 on every call ended by throwing after
\* exactly 4 attempts and exactly these three waits, leaving the client in
\* the error state.
C1_Always429 ==
    /\ \A k \in 1..Len(pending) :
        All429(pending[k].responses) =>
            /\ pending[k].attempts <= 4
            /\ pending[k].attempts =
                Len(pending[k].responses) + (IF pending[k].phase = "posting" THEN 1 ELSE 0)
            /\ Len(pending[k].waits) = Len(pending[k].responses)
            /\ \A i \in 1..Len(pending[k].waits) :
                i <= 3 /\ pending[k].waits[i] = SpecifiedWaits[i]
    /\ (last.op = "response" /\ All429(last.responses) /\ last.settled = "retrying")
        => Len(last.responses) < 4
    /\ (last.op = "response" /\ All429(last.responses) /\ last.settled # "retrying")
        => /\ last.settled = "thrown"
           /\ last.attempts = 4
           /\ Len(last.responses) = 4
           /\ last.waits = SpecifiedWaits
           /\ error = Some(FailedMessage)
           /\ ~isLoading
           /\ pending = <<>>

C1_Witness ==
    /\ last.op = "response"
    /\ last.settled = "thrown"
    /\ All429(last.responses)
    /\ last.attempts = 4

\* C2: a fetch whose first call answered 429 and whose second answered 200
\* returned after exactly 2 attempts and one wait of 1000 ms, and what it
\* returned is the text of the first part of the first candidate of the body.
C2_RetryThenSuccess ==
    (/\ last.op = "response"
     /\ Len(last.responses) = 2
     /\ Is429(last.responses[1])
     /\ Is200(last.responses[2]))
    => /\ last.settled = "returned"
       /\ last.attempts = 2
       /\ last.waits = <<1000>>
       /\ \A t \in {<<"r">>, <<"r", "2">>} :
            last.responses[2].data = BodyWithText(t) => last.returned = Some(t)

C2_Witness ==
    /\ last.op = "response"
    /\ Len(last.responses) = 2
    /\ Is429(last.responses[1])
    /\ last.responses[2] = Resolved(BodyWithText(<<"r", "2">>))
    /\ last.returned = Some(<<"r", "2">>)

\* C3: a call that fails with an error status other than 429, or with no
\* response, ends the fetch at once: it throws, no wait follows that call, no
\* further attempt is made, whatever the number of attempts before it.
C3_NoRetryOnOtherErrors ==
    (/\ last.op = "response"
     /\ ~Is200(last.outcome)
     /\ ~Is429(last.outcome))
    => /\ last.settled = "thrown"
       /\ last.attempts = Len(last.responses)
       /\ Len(last.waits) = Len(last.responses) - 1
       /\ pending = <<>>
       /\ error = Some(FailedMessage)
       /\ ~isLoading

C3_Witness ==
    /\ last.op = "response"
    /\ last.outcome = NetworkError
    /\ last.attempts = 3
    /\ last.settled = "thrown"

---------------------------------------------------------------------------
\* Properties of the submission guards (Spec)

\* a string of white space only, the empty string included
IsBlank(s) == \A j \in 1..Len(s) : s[j] \in WhiteSpace

\* the slots whose name is not blank
NonBlankItems(its) == SelectSeq(its, LAMBDA it : ~IsBlank(it.name))

\* C4: a submission in CollectingItems mode when every slot's name is blank
\* sends nothing and changes nothing: the step leaves Messages, the pending
\* requests, loading, error, Mode, History and every other variable of the
\* client and the storage as they were.
C4_BlankItemsNoop ==
    [][(/\ last'.op = "handleSubmit"
        /\ showItemsInput
        /\ NonBlankItems(items) = <<>>)
       => (/\ ~last'.sent
           /\ UNCHANGED <<uiState, pending, localStorage>>)]_vars

C4_Witness ==
    /\ last.op = "handleSubmit"
    /\ ~last.sent
    /\ showItemsInput
    /\ Len(items) = 2
    /\ items[1].name = <<" ">>

\* C5: a submission in Chatting mode when the follow-up text is empty or
\* white space only sends nothing and changes nothing.
C5_BlankInputNoop ==
    [][(/\ last'.op = "handleSubmit"
        /\ ~showItemsInput
        /\ IsBlank(currentInput))
       => (/\ ~last'.sent
           /\ UNCHANGED <<uiState, pending, localStorage>>)]_vars

C5_Witness ==
    /\ last.op = "handleSubmit"
    /\ ~last.sent
    /\ ~showItemsInput
    /\ currentInput = <<" ">>

---------------------------------------------------------------------------
\* Properties of the Items list

IsEmptyName(s) == s = <<>>

EmptySlots(its) == {i \in 1..Len(its) : IsEmptyName(its[i].name)}

LastIsBlank(its) == its # <<>> /\ IsBlank(its[Len(its)].name)

\* C6 as stated: unless one slot is left, the list holds exactly one empty
\* slot and that slot is the last one.
C6_ExactlyOneTrailingEmptySlot ==
    Len(items) = 1 \/ EmptySlots(items) = {Len(items)}

\* C6, amended: a step that leaves the list without a blank last slot either
\* made the list shorter (a delete) or left the last slot as it was; so an
\* edit never takes the trailing blank slot away, an edit of the last slot to
\* a name that is not blank appends one, and only a delete of the trailing
\* slot leaves the list without one.
C6_TrailingBlankSlot ==
    [][~LastIsBlank(items')
       => \/ Len(items') < Len(items)
          \/ (/\ Len(items') = Len(items)
              /\ items'[Len(items')] = items[Len(items)])]_vars

\* two named slots followed by the blank slot the second edit appended
C6_Witness ==
    /\ Len(items) = 3
    /\ ~IsBlank(items[1].name)
    /\ ~IsBlank(items[2].name)
    /\ IsEmptyName(items[3].name)

\* C7: the Items list is never empty.
C7_AtLeastOneSlot == Len(items) >= 1

\* one named slot is left after the trailing blank slot was deleted, while a
\* request is pending
C7_Witness ==
    /\ Len(items) = 1
    /\ ~IsBlank(items[1].name)
    /\ pending # <<>>

---------------------------------------------------------------------------
\* Properties of Mode and History (Spec)

\* C8 as stated: Mode leaves CollectingItems only at a successful response,
\* and leaves Chatting only at a New-conversation reset.
C8_OnlyAfterResponse ==
    [][/\ (showItemsInput /\ ~showItemsInput')
            => (last'.op = "response" /\ last'.settled = "returned")
       /\ (~showItemsInput /\ showItemsInput')
            => last'.op = "handleNewChat"]_vars

\* C8, amended: Mode leaves CollectingItems only when the request of an
\* initial submission returns or when a history entry is reopened, and
\* leaves Chatting only at a New-conversation reset (so it changes to
\* Chatting at most once between two resets).
C8_ModeChanges ==
    [][/\ (showItemsInput /\ ~showItemsInput')
            => \/ last'.op = "loadHistoryChat"
               \/ (/\ last'.op = "response"
                   /\ last'.settled = "returned"
                   /\ last'.initial)
       /\ (~showItemsInput /\ showItemsInput')
            => last'.op = "handleNewChat"]_vars

\* the response of an initial submission arrived after a reset, and switched
\* the new conversation to Chatting
C8_Witness ==
    /\ last.op = "response"
    /\ last.settled = "returned"
    /\ last.initial
    /\ ~showItemsInput
    /\ Len(messages) = 1

\* a step in which a pending call got its response
IsResponseStep == pending' # pending /\ last'.op = "response"

\* C9: the response step of a successful initial exchange prepends one entry
\* to History, holding the non-blank items of the list as it was when the
\* exchange was submitted and the returned text; the response step of a
\* follow-up or of a failed exchange leaves History as it was.
C9_HistoryEntry ==
    [][IsResponseStep =>
        IF last'.settled = "returned" /\ last'.initial
        THEN /\ Len(history') = Len(history) + 1
             /\ Tail(history') = history
             /\ history'[1].items = NonBlankItems(pending[1].items)
             /\ history'[1].instructions = last'.returned[1]
        ELSE history' = history]_vars

\* an entry was prepended to a non-empty History, and the list has changed
\* since the submission
C9_Witness ==
    /\ last.op = "response"
    /\ last.settled = "returned"
    /\ last.initial
    /\ Len(history) = 2
    /\ history[1].items # NonBlankItems(items)

\* C10: after handleNewChat has run, Items is one empty slot, Messages is
\* empty, Mode is CollectingItems and Error is none.
C10_NewChatResets ==
    last.op = "handleNewChat"
    => /\ items = <<[id |-> <<"1">>, name |-> <<>>]>>
       /\ messages = <<>>
       /\ showItemsInput
       /\ error = None

\* handleNewChat ran while a request was pending
C10_Witness ==
    /\ last.op = "handleNewChat"
    /\ isLoading
    /\ pending # <<>>

---------------------------------------------------------------------------
\* Properties of the request state machine (Spec)

\* the states of the specification's request state machine, read off the
\* client: Submitting while loading, else Error while an error is shown
Submitting == isLoading
InError == ~isLoading /\ error # None
Idle == ~isLoading /\ error = None

\* C11 as stated: after handleNewChat has run the client is Idle, neither
\* Submitting nor Error, also when it ran while a request or a backoff wait
\* was pending.
C11_NewChatIdle == last.op = "handleNewChat" => Idle

\* a call is pending and the transcript is empty: every submission appends
\* the user's turn and only handleNewChat empties the transcript, so the
\* pending call was submitted before a New-conversation reset
StaleCallPending == pending # <<>> /\ messages = <<>>

\* C12 as stated: the completion of a request that was in flight when New
\* conversation was invoked changes neither Messages, Mode nor History.
C12_LateResponseIgnored ==
    [][(StaleCallPending /\ IsResponseStep)
       => UNCHANGED <<messages, showItemsInput, history>>]_vars

\* C13: at most one call of handleSubmit is suspended in fetchWithRetry (at a
\* post or at a backoff wait) in every reachable state, and the submit
\* controls are disabled exactly in the states where one is.
C13_OneRequestPending ==
    /\ Len(pending) <= 1
    /\ isLoading <=> pending # <<>>

\* a history entry was reopened during the backoff wait of the one pending
\* call, and submission is still disabled
C13_Witness ==
    /\ Len(pending) = 1
    /\ pending[1].phase = "sleeping"
    /\ last.op = "loadHistoryChat"
    /\ isLoading

---------------------------------------------------------------------------
\* Properties of a failed submission

\* the call log of last ended the fetch without a returned text
FetchFailed ==
    /\ last.op = "response"
    /\ ~Is200(last.outcome)
    /\ ~(Is429(last.outcome) /\ Len(last.responses) <= MAX_RETRIES)

\* C14: whenever a fetch has failed (a fourth 429, another error status, no
\* response at all), handleSubmit caught it: the call is over, the error
\* shown is "Failed to get a response. Please try again." whatever the
\* failure was, and loading is cleared.
C14_OneFailureMessage ==
    FetchFailed
    => /\ last.settled = "thrown"
       /\ error = Some(<<"Failed to get a response. Please try again.">>)
       /\ ~isLoading
       /\ pending = <<>>

\* a 503 that followed a 429, caught
C14_Witness ==
    /\ FetchFailed
    /\ last.outcome = Rejected(503)
    /\ Len(last.responses) = 2
    /\ error # None

\* the step in which the fetch of the pending call throws into handleSubmit
IsFailureStep == IsResponseStep /\ last'.settled = "thrown"

\* msgs is before followed by one user turn
IsPlusUserTurn(msgs, before) ==
    /\ Len(msgs) = Len(before) + 1
    /\ SubSeq(msgs, 1, Len(before)) = before
    /\ msgs[Len(msgs)].type = "user"

\* C15 as stated: when a submission fails, the transcript is the transcript
\* the submission was made on plus the user's turn, and the failure leaves
\* Mode and History as they were.
C15_FailedTranscript ==
    [][IsFailureStep
       => /\ IsPlusUserTurn(messages', pending[1].messages)
          /\ UNCHANGED <<showItemsInput, history>>]_vars

\* C15, amended: a valid submission appends the user's turn to the
\* transcript and leaves Mode and History as they were; its failure changes
\* none of Messages, Mode, History (no assistant turn); and while it is
\* pending only handleNewChat and loadHistoryChat change the transcript.  So
\* the transcript at the failure is the one before the submission plus the
\* user's turn unless one of these two ran in between.
C15_FailedSubmission ==
    [][/\ (last'.op = "handleSubmit" /\ last'.sent)
            => /\ IsPlusUserTurn(messages', messages)
               /\ pending' = Append(pending, pending'[Len(pending')])
               /\ pending'[Len(pending')].messages = messages
               /\ UNCHANGED <<showItemsInput, history>>
       /\ IsFailureStep
            => UNCHANGED <<messages, showItemsInput, history>>
       /\ (pending # <<>> /\ messages' # messages /\ ~IsResponseStep)
            => last'.op \in {"handleNewChat", "loadHistoryChat"}]_vars

\* a follow-up on a reopened entry failed: its user turn is the last message
C15_Witness ==
    /\ last.op = "response"
    /\ last.settled = "thrown"
    /\ ~last.initial
    /\ Len(messages) = 3
    /\ messages[2].type = "assistant"
    /\ messages[3].type = "user"
    /\ ~showItemsInput

---------------------------------------------------------------------------
\* Properties of the history list

\* the names of its, separated by a comma and a space
RECURSIVE Listing(_)
Listing(its) ==
    IF its = <<>> THEN <<>>
    ELSE IF Len(its) = 1 THEN its[1].name
    ELSE Listing(SubSeq(its, 1, Len(its) - 1)) \o <<", ">> \o its[Len(its)].name

\* C16: after loadHistoryChat has run on an entry, in whatever state it was
\* clicked, the transcript is exactly two messages: a user turn that lists
\* the names of the entry's items and an assistant turn with the entry's
\* stored response; and Mode is Chatting.
C16_ReopenedEntry ==
    last.op = "loadHistoryChat"
    => /\ Len(messages) = 2
       /\ messages[1].type = "user"
       /\ messages[1].content = <<"Items: ">> \o Listing(last.entry.items)
       /\ messages[2].type = "assistant"
       /\ messages[2].content = last.entry.instructions
       /\ ~showItemsInput

\* an entry of two items was reopened while a request was pending
C16_Witness ==
    /\ last.op = "loadHistoryChat"
    /\ Len(last.entry.items) = 2
    /\ messages[1].content = <<"Items: ", "a", ", ", "b">>
    /\ isLoading
    /\ pending # <<>>

---------------------------------------------------------------------------
\* Properties of the follow-up prompt

\* "Human: <content>" or "Assistant: <content>", by the role of the message
RoleLine(msg) ==
    IF msg.type = "user" THEN <<"Human">> \o <<": ">> \o msg.content
    ELSE <<"Assistant">> \o <<": ">> \o msg.content

\* every message of msgs in order, one line each
RECURSIVE Rendered(_)
Rendered(msgs) ==
    IF msgs = <<>> THEN <<>>
    ELSE IF Len(msgs) = 1 THEN RoleLine(msgs[1])
    ELSE Rendered(SubSeq(msgs, 1, Len(msgs) - 1))
            \o <<"\n">> \o RoleLine(msgs[Len(msgs)])

\* the call the last submission started
LastCall == pending[Len(pending)]

\* C17: right after a follow-up was submitted, the prompt of its call is the
\* whole transcript the submission was made on (every message before the new
\* user turn, in order, none dropped), one "Human:"/"Assistant:" line each,
\* then a blank line and the new text as a final Human turn.
C17_FullContext ==
    (last.op = "handleSubmit" /\ last.sent /\ ~showItemsInput)
    => /\ LastCall.messages = SubSeq(messages, 1, Len(messages) - 1)
       /\ LastCall.prompt =
            Rendered(SubSeq(messages, 1, Len(messages) - 1))
                \o <<"\n\nHuman: ">> \o messages[Len(messages)].content

\* a follow-up was submitted on a transcript that ends with the user turn of
\* an earlier failed follow-up, and that turn is in the prompt
C17_Witness ==
    /\ last.op = "handleSubmit"
    /\ last.sent
    /\ ~showItemsInput
    /\ Len(messages) = 3
    /\ messages[2].type = "user"
    /\ LastCall.prompt =
        <<"Assistant", ": ", "r", "\n", "Human", ": ", "q", "\n\nHuman: ", "q">>

---------------------------------------------------------------------------
\* Properties of the stored history (SpecStorage)

\* the history the storage holds, none if the key is absent
StoredHistory ==
    IF "recyclingHistory" \in DOMAIN localStorage
    THEN Some(parse(localStorage["recyclingHistory"]))
    ELSE None

\* C18: a reload of the page, which reads back at startup what the save
\* effect serialized, leaves History as it was: the same entries in the same
\* newest-first order.
C18_RoundTrip == [][last'.op = "reload" => history' = history]_vars

\* a history of two different entries, the newer one made in this session,
\* came back from a reload
C18_Witness ==
    /\ last.op = "reload"
    /\ Len(history) = 2
    /\ history[1].id = DateNowString(ClockStart)
    /\ history[2] = StoredEntry

\* C19: once the page is mounted, in every state (each is a state after the
\* save effect of the last render has run) the storage holds the in-memory
\* History, and holds no history while the in-memory History is empty.
C19_WriteThrough ==
    mounted =>
        IF history = <<>> THEN StoredHistory = None
        ELSE StoredHistory = Some(history)

\* the response of an initial exchange prepended an entry to a loaded
\* history, and the storage holds both
C19_Witness ==
    /\ last.op = "response"
    /\ last.settled = "returned"
    /\ last.initial
    /\ Len(history) = 2
    /\ StoredHistory = Some(history)
    /\ history[2] \in StoredEntries

---------------------------------------------------------------------------
\* Properties of the proxy (SpecProxy)

\* the handlers of the route that have answered
Answered == {j \in 1..Len(server.handlers) : server.handlers[j].res # None}

\* C20: whenever the upstream call of a handler of POST /api/gemini has
\* succeeded, the handler has answered status 200 with the body the upstream
\* answered, nothing added, removed or wrapped.
C20_SuccessRelayed ==
    \A j \in Answered :
        Is200(server.handlers[j].upstream[1])
        => /\ server.handlers[j].res[1].status = 200
           /\ server.handlers[j].res[1].body = server.handlers[j].upstream[1].data

\* an upstream body without candidates was relayed as it is
C20_Witness ==
    \E j \in Answered :
        /\ server.handlers[j].upstream[1] = Resolved([promptFeedback |-> <<"blocked">>])
        /\ server.handlers[j].res[1] =
            [status |-> 200, body |-> [promptFeedback |-> <<"blocked">>]]

\* the upstream call of handler j failed: an error status or no response
UpstreamFailed(j) == ~Is200(server.handlers[j].upstream[1])

\* the error body the upstream call of handler j failed with, if any
UpstreamBody(j) ==
    IF "data" \in DOMAIN server.handlers[j].upstream[1]
    THEN Some(server.handlers[j].upstream[1].data)
    ELSE None

\* C21: whenever the upstream call of a handler has failed (no response, or
\* an error status, 400 for a bad credential, 429, 503), the handler has
\* answered status 500, never the upstream status, with a body of the one
\* field error, which holds the upstream error body if there was one and
\* the text "Internal Server Error" if not.
C21_FailureShape ==
    \A j \in Answered :
        UpstreamFailed(j)
        => /\ server.handlers[j].res[1].status = 500
           /\ DOMAIN server.handlers[j].res[1].body = {"error"}
           /\ server.handlers[j].res[1].body.error =
                IF UpstreamBody(j) # None THEN UpstreamBody(j)[1]
                ELSE [str |-> <<"Internal Server Error">>]

\* a 429 of the upstream with its error body was answered as a 500
C21_Witness ==
    \E j \in Answered :
        /\ server.handlers[j].upstream[1].kind = "response"
        /\ server.handlers[j].upstream[1].status = 429
        /\ UpstreamBody(j) # None
        /\ server.handlers[j].res[1].status = 500

\* handler j as it would be had the proxy been started with key
WithKey(j, key) == [server.handlers[j] EXCEPT !.url = API_URL(key)]

\* C22: the answer a handler of the route gave is the answer it gives to the
\* same request and the same upstream reply under every other value of the
\* credential: nothing of the answer depends on the key.
C22_KeyNotExposed ==
    \A j \in Answered : \A key \in Keys :
        answerOf(WithKey(j, key), server.handlers[j].upstream[1])
            = server.handlers[j].res[1]

\* a proxy started with the second key answered an upstream 400 (the reply
\* to a bad credential)
C22_Witness ==
    /\ server.API_KEY = <<"key2">>
    /\ \E j \in Answered :
        /\ server.handlers[j].url = API_URL(<<"key2">>)
        /\ server.handlers[j].upstream[1] = RejectedWith(400, UpstreamErrorBody(400))
        /\ server.handlers[j].res[1].status = 500

---------------------------------------------------------------------------
\* Properties of the transcript (Spec)

\* after is before with one message more at its end
IsPlusOneMessage(after, before) ==
    /\ Len(after) = Len(before) + 1
    /\ \A i \in 1..Len(before) : after[i] = before[i]

\* C23: every step that changes Messages and is neither a New-conversation
\* reset nor the reopening of a history entry appends one message and leaves
\* the messages that were there, and their order, as they were.
C23_AppendOnly ==
    [][(messages' # messages
        /\ last'.op \notin {"handleNewChat", "loadHistoryChat"})
       => IsPlusOneMessage(messages', messages)]_vars

\* the answer to a follow-up was appended to a transcript of three messages
C23_Witness ==
    /\ last.op = "response"
    /\ last.settled = "returned"
    /\ ~last.initial
    /\ Len(messages) = 4
    /\ messages[3].type = "user"
    /\ messages[4].type = "assistant"

---------------------------------------------------------------------------
\* Properties of the item ids (SpecItems)

\* C24 as stated: in every reachable state no two slots of the Items list
\* have the same id, also when two slots were appended at the same value of
\* the clock.
C24_UniqueIds ==
    \A i, j \in 1..Len(items) : i # j => items[i].id # items[j].id

---------------------------------------------------------------------------
\* Properties of the error (Spec)

\* C25: a valid submission leaves no error shown when it has started, and in
\* every reachable state no error is shown while a call is pending.
C25_NoErrorWhilePending ==
    /\ (last.op = "handleSubmit" /\ last.sent) => error = None
    /\ pending # <<>> => error = None

\* a submission was made again after a failed one (its user turn is still
\* the last message but one), and it cleared the error
C25_Witness ==
    /\ last.op = "handleSubmit"
    /\ last.sent
    /\ showItemsInput
    /\ Len(messages) = 2
    /\ messages[1].type = "user"
    /\ messages[2].type = "user"
    /\ error = None
    /\ pending # <<>>

\* C26 as stated: in every reachable state each assistant message of the
\* transcript comes right after a user message: the transcript does not
\* start with an assistant message and holds no two assistant messages in a
\* row.
C26_AssistantAfterUser ==
    \A i \in 1..Len(messages) :
        messages[i].type = "assistant"
        => (i > 1 /\ messages[i - 1].type = "user")

---------------------------------------------------------------------------
\* Properties of the client and the proxy end to end (SpecProxy)

\* the step in which the answer of a handler of the route reaches the
\* client: the only step that takes a handler away
IsDeliverStep == Len(server'.handlers) < Len(server.handlers)

\* C27: when the answer to an upstream 429 reaches the client, the client
\* sees status 500: its fetch throws at once into handleSubmit with no
\* backoff wait and no further attempt (one attempt in all when no earlier
\* call of the fetch was answered by the endpoint itself); and a step in
\* which the client takes its 429 retry is never the delivery of an answer
\* of the route.
C27_UpstreamRateLimit ==
    [][/\ (IsDeliverStep /\ Is429(server.handlers[1].upstream[1]))
            => /\ last'.op = "response"
               /\ last'.outcome.status = 500
               /\ last'.settled = "thrown"
               /\ last'.waits = pending[1].waits
               /\ last'.attempts = pending[1].attempts
               /\ pending[1].responses = <<>> => last'.attempts = 1
               /\ pending' = <<>>
               /\ error' = Some(FailedMessage)
               /\ ~isLoading'
       /\ (last'.op = "response" /\ last'.settled = "retrying")
            => (~IsDeliverStep /\ Is429(last'.outcome))]_vars

\* the first attempt of a fetch was answered 500 for a 429 of the upstream,
\* and the fetch has thrown
C27_Witness ==
    /\ last.op = "response"
    /\ last.outcome = RejectedWith(500, [error |-> UpstreamErrorBody(429)])
    /\ last.attempts = 1
    /\ last.waits = <<>>
    /\ last.settled = "thrown"
    /\ error = Some(FailedMessage)

---------------------------------------------------------------------------
\* More properties of the stored history (SpecStorage)

\* old is the end of new
IsSuffix(old, new) ==
    /\ Len(old) <= Len(new)
    /\ SubSeq(new, Len(new) - Len(old) + 1, Len(new)) = old

\* the stored history of the next state
StoredHistoryNext ==
    IF "recyclingHistory" \in DOMAIN localStorage'
    THEN Some(parse(localStorage'["recyclingHistory"]))
    ELSE None

\* C28: the step in which the mount effects run, History still empty in
\* memory, leaves a stored history as it is; and every step leaves a stored
\* history stored, with the entries it had as the end of what is stored
\* after the step.
C28_NoEntryLost ==
    [][StoredHistory # None
       => /\ StoredHistoryNext # None
          /\ IsSuffix(StoredHistory[1], StoredHistoryNext[1])
          /\ (~mounted /\ mounted') => StoredHistoryNext = StoredHistory]_vars

\* an entry was stored in front of the entry an earlier session left
C28_Witness ==
    /\ StoredHistory # None
    /\ Len(StoredHistory[1]) = 2
    /\ StoredHistory[1][1].id = DateNowString(ClockStart)
    /\ StoredHistory[1][1].instructions = <<"r">>
    /\ StoredHistory[1][2] \in StoredEntries
    /\ last.op = "response"

---------------------------------------------------------------------------
\* Termination of a submission (SpecLive)

\* C29: when every post is answered in the end, no fetch makes more than 4
\* attempts and loading, once set by a submission, is cleared in the end:
\* the submit controls do not stay disabled.
C29_SubmissionEnds ==
    /\ [](\A k \in 1..Len(pending) : pending[k].attempts <= 1 + MAX_RETRIES)
    /\ isLoading ~> ~isLoading

\* a submission ended with loading cleared at its fourth attempt, which was
\* answered 200 after three 429
C29_Witness ==
    /\ last.op = "response"
    /\ last.settled = "returned"
    /\ last.attempts = 4
    /\ Len(last.waits) = 3
    /\ ~isLoading
    /\ pending = <<>>

---------------------------------------------------------------------------
\* A 2xx answer without candidate text (SpecFetch)

\* the 2xx bodies without candidate text: no candidates, a candidate
\* without parts, an empty text
NoTextBodies ==
    { [promptFeedback |-> <<"blocked">>],
      [candidates |-> <<[content |-> [parts |-> <<>>]]>>],
      BodyWithText(<<>>) }

AnsweredWithoutText ==
    /\ last.op = "response"
    /\ Is200(last.outcome)
    /\ last.outcome.data \in NoTextBodies

\* C30: a 2xx answer whose body has no candidate text is a success:
\* fetchWithRetry returns "No instructions found.", no error is set, loading
\* is cleared, the fallback is appended as the assistant turn and, on an
\* initial exchange, it is the instructions of the entry put first in the
\* history and the conversation is in chat mode.
C30_FallbackIsSuccess ==
    AnsweredWithoutText
    => /\ last.settled = "returned"
       /\ last.returned = Some(NoInstructions)
       /\ error = None
       /\ ~isLoading
       /\ messages # <<>>
       /\ messages[Len(messages)].type = "assistant"
       /\ messages[Len(messages)].content = NoInstructions
       /\ last.initial
          => /\ history # <<>>
             /\ history[1].instructions = NoInstructions
             /\ ~showItemsInput
             /\ hasInitialResponse

\* an initial exchange was answered 200 without candidates and the fallback
\* is stored in the newest history entry
C30_Witness ==
    /\ AnsweredWithoutText
    /\ "candidates" \notin DOMAIN last.outcome.data
    /\ last.initial
    /\ history # <<>>
    /\ history[1].instructions = NoInstructions
    /\ ~showItemsInput

====
